---------------------------- MODULE Spec2Model ----------------------------
(***************************************************************************)
(* Model of src/src/Model.js: the Model (entity) and Store (collection)    *)
(* classes of mobx-binder.                                                 *)
(*                                                                         *)
(* Strings that go through a naming conversion are sequences of one-       *)
(* character strings, so that snakeCase and snakeToCamel are computed      *)
(* character by character.  A JavaScript object is an ordered map: a        *)
(* sequence of [k, v] pairs with distinct keys, in insertion order.  A      *)
(* JavaScript value is a tagged record.  An operation that can throw        *)
(* returns [ok, v]: ok = FALSE is the throw, v the object as the throw      *)
(* left it.                                                                 *)
(***************************************************************************)
EXTENDS Integers, Sequences, FiniteSets, TLC

VARIABLES
    \* ---- request lifecycle of one entity (Spec)
    self,                    \* the entity: attributes, relations
    api,                     \* entity.api is set
    urlRoot,                 \* entity.urlRoot is set
    pendingRequestCount,     \* entity.__pendingRequestCount
    backendValidationErrors, \* entity.__backendValidationErrors: the fields in error
    member,                  \* the entity is among the models of its __store
    calls,                   \* the calls made so far, each with its promise
    event,                   \* the last step: [call, what]
    uid,                     \* the counter of lodash's uniqueId
    \* ---- membership of a collection (SpecStore)
    store,                   \* the collection
    before,                  \* the collection as the last operation found it
    lastOp,                  \* the last operation: [op, input, ok]
    \* ---- the object graph of an entity (SpecGraph)
    root,                    \* the root entity
    out,                     \* what the last toBackendAll returned
    graphOp,                 \* the last operation: [op, input, ok]
    \* ---- pagination of a collection (SpecPage)
    state,                   \* store.__state: currentPage, limit, totalRecords
    storeApi,                \* store.api and store.url are set
    storePending,            \* store.__pendingRequestCount
    fetches,                 \* the fetchStore requests in flight
    nav,                     \* the last page navigation and how it ended
    \* ---- an entity of primitive attributes and its copy (SpecTrip)
    contact,                 \* the entity
    copy,                    \* what parse(toBackend(contact)) of a new entity returned
    tripOp                   \* the last operation

reqVars   == <<self, api, urlRoot, pendingRequestCount, backendValidationErrors,
               member, calls, event>>
storeVars == <<store, before, lastOp>>
graphVars == <<root, out, graphOp>>
pageVars  == <<state, storeApi, storePending, fetches, nav>>
tripVars  == <<contact, copy, tripOp>>
vars      == <<reqVars, uid, storeVars, graphVars, pageVars, tripVars>>

\* what the actions of each specification leave alone
ReqFrame   == UNCHANGED <<storeVars, graphVars, pageVars, tripVars>>
StoreFrame == UNCHANGED <<reqVars, uid, graphVars, pageVars, tripVars>>
GraphFrame == UNCHANGED <<reqVars, storeVars, pageVars, tripVars>>
PageFrame  == UNCHANGED <<reqVars, uid, graphVars, tripVars>>
TripFrame  == UNCHANGED <<reqVars, uid, storeVars, graphVars, pageVars>>

-----------------------------------------------------------------------------
(* Bounds of the model *)

MaxCalls == 2       \* calls made on the entity in one behaviour
MaxId == 2          \* backend identifiers are 1..MaxId
MaxTotal == 3       \* totalRecords of a fetch response is 0..MaxTotal
MaxFetches == 2     \* fetch calls made on the collection in one behaviour

-----------------------------------------------------------------------------
(* Characters and strings *)

ToLower(c) ==
    CASE c = "O" -> "o"
      [] c = "T" -> "t"
      [] c = "N" -> "n"
      [] OTHER -> c

ToUpper(c) ==
    CASE c = "o" -> "O"
      [] c = "t" -> "T"
      [] c = "n" -> "N"
      [] OTHER -> c

IsUpper(c) == c \in {"O", "T", "N"}

\* JavaScript's \w: a letter, a digit or the underscore (no other character
\* occurs in the names of this model, the dot apart).
IsWordChar(c) == c # "."

LowerSeq(s) == [i \in 1..Len(s) |-> ToLower(s[i])]

\* lodash words(): a word ends at an underscore or before an upper-case
\* letter that follows a lower-case one; underscores are dropped.
RECURSIVE Words(_, _, _)
Words(s, cur, acc) ==
    IF s = <<>> THEN (IF cur = <<>> THEN acc ELSE Append(acc, cur))
    ELSE LET c == Head(s) IN
         IF c = "_" \/ c = "."
           THEN Words(Tail(s), <<>>, IF cur = <<>> THEN acc ELSE Append(acc, cur))
         ELSE IF IsUpper(c) /\ cur # <<>> /\ ~IsUpper(cur[Len(cur)])
           THEN Words(Tail(s), <<c>>, Append(acc, cur))
         ELSE Words(Tail(s), Append(cur, c), acc)

RECURSIVE JoinWords(_)
JoinWords(ws) ==
    IF ws = <<>> THEN <<>>
    ELSE IF Len(ws) = 1 THEN LowerSeq(ws[1])
    ELSE LowerSeq(ws[1]) \o <<"_">> \o JoinWords(Tail(ws))

\* lodash snakeCase(string)
snakeCase(s) == JoinWords(Words(s, <<>>, <<>>))

\* snakeToCamel(s): every underscore that is followed by a word character is
\* dropped and that character upper-cased: s.replace(/_\w/g, m => m[1].toUpperCase())
RECURSIVE snakeToCamel(_)
snakeToCamel(s) ==
    IF s = <<>> THEN <<>>
    ELSE IF Head(s) = "_" /\ Len(s) >= 2 /\ IsWordChar(s[2])
      THEN <<ToUpper(s[2])>> \o snakeToCamel(Tail(Tail(s)))
    ELSE <<Head(s)>> \o snakeToCamel(Tail(s))

\* string.startsWith(prefix)
StartsWith(s, prefix) ==
    Len(s) >= Len(prefix) /\ SubSeq(s, 1, Len(prefix)) = prefix

-----------------------------------------------------------------------------
(* Ordered maps (JavaScript objects) *)

EmptyMap == <<>>
Keys(m) == [i \in 1..Len(m) |-> m[i].k]
KeySet(m) == {m[i].k : i \in 1..Len(m)}
Has(m, key) == key \in KeySet(m)
IndexOf(m, key) == CHOOSE i \in 1..Len(m) : m[i].k = key
Get(m, key) == m[IndexOf(m, key)].v
\* m[key] = val: in place for an existing key, appended for a new one
Put(m, key, val) ==
    IF Has(m, key)
      THEN [m EXCEPT ![IndexOf(m, key)] = [k |-> key, v |-> val]]
      ELSE Append(m, [k |-> key, v |-> val])

SeqToSet(s) == {s[i] : i \in 1..Len(s)}
Includes(s, x) == x \in SeqToSet(s)

-----------------------------------------------------------------------------
(* JavaScript values *)

Null == [t |-> "null"]
Undefined == [t |-> "undefined"]
Num(n) == [t |-> "num", n |-> n]
Str(s) == [t |-> "str", s |-> s]
Obj(m) == [t |-> "obj", o |-> m]
Arr(a) == [t |-> "arr", a |-> a]

\* lodash isPlainObject(value)
isPlainObject(val) == val.t = "obj"
\* lodash isArray(value)
isArray(val) == val.t = "arr"
\* JavaScript truthiness, as `if (value)` and `!value` read it
Truthy(val) ==
    CASE val.t = "null" -> FALSE
      [] val.t = "undefined" -> FALSE
      [] val.t = "num" -> val.n # 0
      [] val.t = "str" -> val.s # <<>>
      [] OTHER -> TRUE

Fail(v) == [ok |-> FALSE, v |-> v]
Done(v) == [ok |-> TRUE, v |-> v]

\* string.split('.')
RECURSIVE Split(_, _, _)
Split(s, cur, acc) ==
    IF s = <<>> THEN Append(acc, cur)
    ELSE IF Head(s) = "." THEN Split(Tail(s), <<>>, Append(acc, cur))
    ELSE Split(Tail(s), Append(cur, Head(s)), acc)

\* array.join('.')
RECURSIVE Join(_)
Join(segs) ==
    IF segs = <<>> THEN <<>>
    ELSE IF Len(segs) = 1 THEN segs[1]
    ELSE segs[1] \o <<".">> \o Join(Tail(segs))

-----------------------------------------------------------------------------
(* The names and the classes of the application.  Model.js defines the base  *)
(* classes; an application subclasses them, declaring attributes (observable *)
(* fields with their initial values) and relations().                        *)

nId         == <<"i", "d">>
nName       == <<"n", "a", "m", "e">>
nKind       == <<"k", "i", "n", "d">>
nOwner      == <<"o", "w", "n", "e", "r">>
nPastOwners == <<"p", "a", "s", "t", "O", "w", "n", "e", "r", "s">>
nTown       == <<"t", "o", "w", "n">>
nHomeTown   == <<"h", "o", "m", "e", "T", "o", "w", "n">>
nBreed      == <<"b", "r", "e", "e", "d">>
nNickName   == <<"n", "i", "c", "k", "N", "a", "m", "e">>
nNote       == <<"_", "n", "o", "t", "e">>
sDog        == <<"D", "o", "g">>
sCat        == <<"C", "a", "t">>
sEmpty      == <<>>

KV(key, val) == [k |-> key, v |-> val]
Dot(a, b) == a \o <<".">> \o b

\* static primaryKey = 'id'
primaryKey == nId

\* relations() of each class: relation name -> class of the relation
Relations(cls) ==
    CASE cls = "Animal" -> <<KV(nKind, "Kind"), KV(nOwner, "Person"),
                             KV(nPastOwners, "PersonStore"), KV(nTown, "Location")>>
      [] cls = "Person" -> <<KV(nTown, "Location"), KV(nHomeTown, "Location")>>
      [] cls = "Kind"   -> <<KV(nBreed, "Breed")>>
      [] OTHER -> EmptyMap

\* RelModel.prototype instanceof Store
IsStoreClass(cls) == cls = "PersonStore"
\* Store.Model
StoreModel(cls) == "Person"

\* the observable fields of a class with their initial values
Defaults(cls) ==
    IF cls = "Contact"
      THEN <<KV(nId, Null), KV(nName, Str(sEmpty)), KV(nNickName, Str(sEmpty)),
             KV(nNote, Str(sEmpty))>>
      ELSE <<KV(nId, Null), KV(nName, Str(sEmpty))>>

-----------------------------------------------------------------------------
(* Construction: constructor and __parseRelations.  A value that the code    *)
(* computes once and reads several times is the parameter of the definition  *)
(* that reads it.                                                            *)

\* this[this.constructor.primaryKey]
Pk(m) == Get(m.attrs, primaryKey)
\* get isNew
isNew(m) == ~Truthy(Pk(m))
\* get isLoading, count being __pendingRequestCount
isLoading(count) == count > 0

RECURSIVE FirstDot(_, _)
FirstDot(s, i) ==
    IF i > Len(s) THEN 0
    ELSE IF s[i] = "." THEN i
    ELSE FirstDot(s, i + 1)

\* /([^.]+)\.(.+)/ matches when the first dot, at i, has text on both sides
DotAt(s, i) == IF i > 1 /\ i < Len(s) THEN i ELSE 0

\* aRel.match(/([^.]+)\.(.+)/): the position of the dot that splits the path,
\* 0 when the expression does not match
MatchDot(s) == DotAt(s, FirstDot(s, 1))

\* currentProp.concat(otherRels): an array argument is spread, any other
\* value (null) is appended as one element
Concat(arr, val) == IF isArray(val) THEN Arr(arr.a \o val.a) ELSE Arr(Append(arr.a, val))

\* relModels[currentRel] = currentProp ? currentProp.concat(otherRels) : otherRels
\* and the push to __activeCurrentRelations; st is [relModels, current]
GroupOne(st, currentRel, otherRels) ==
    [relModels |->
        Put(st.relModels, currentRel,
            IF Has(st.relModels, currentRel) /\ Truthy(Get(st.relModels, currentRel))
              THEN Concat(Get(st.relModels, currentRel), otherRels)
              ELSE otherRels),
     current |-> IF Includes(st.current, currentRel) THEN st.current
                 ELSE Append(st.current, currentRel)]

\* currentRel and otherRels of the path s that the expression splits at d
GroupAt(st, s, d) ==
    GroupOne(st,
             IF d > 0 THEN SubSeq(s, 1, d - 1) ELSE s,
             IF d > 0 THEN Arr(<<Str(SubSeq(s, d + 1, Len(s)))>>) ELSE Null)

\* The forEach of __parseRelations over activeRelations[i..]; a null entry
\* makes aRel.match throw
RECURSIVE GroupRelations(_, _, _)
GroupRelations(activeRelations, i, st) ==
    IF i > Len(activeRelations) THEN Done(st)
    ELSE IF activeRelations[i].t # "str" THEN Fail(st)
    ELSE GroupRelations(activeRelations, i + 1,
                        GroupAt(st, activeRelations[i].s, MatchDot(activeRelations[i].s)))

\* The constructor, parse and __addFromRepository call one another; inside
\* their definitions such a call is written Invoke(name, arguments), and
\* Invoke, defined after them, applies the definition of that name.
RECURSIVE Invoke(_, _)

\* Store constructor; options holds relations and, when __parseRelations put
\* it there, repository, which is no option of a Store
NewStore(cls, options) ==
    [ok |-> options.repository.t = "undefined",
     v |-> [k |-> "Store", cls |-> cls, models |-> <<>>,
            active |-> IF Truthy(options.relations) THEN options.relations.a ELSE <<>>,
            repository |-> Undefined, nested |-> EmptyMap]]

\* this.__store && this.__store.__nestedRepository[relName], else no repository
NestedRepository(m, nested, relName) ==
    IF m.hasStore /\ Has(nested, relName) /\ Truthy(Get(nested, relName))
      THEN Get(nested, relName) ELSE Undefined

\* new RelModel(options) for a Store, new RelModel(null, options) for a Model
NewRelation(RelModel, options) ==
    IF IsStoreClass(RelModel) THEN NewStore(StoreModel(RelModel), options)
    ELSE Invoke("NewModel", <<RelModel, Null, options>>)

\* the relation object child built for relModels[i], then the next ones
BuildNext(m, nested, relModels, i, rels, child) ==
    IF ~child.ok THEN Fail(rels)
    ELSE Invoke("BuildRelations",
                <<m, nested, relModels, i + 1, Append(rels, KV(relModels[i].k, child.v))>>)

\* The mapValues of __parseRelations over relModels[i..]: rels is the map of
\* the relation objects built so far.  m is the entity, nested the
\* __nestedRepository of its __store.
BuildRelations(m, nested, relModels, i, rels) ==
    IF i > Len(relModels) THEN Done(rels)
    ELSE IF ~Has(Relations(m.cls), relModels[i].k) THEN Fail(rels)
    ELSE BuildNext(m, nested, relModels, i, rels,
                   NewRelation(Get(Relations(m.cls), relModels[i].k),
                               [relations |-> relModels[i].v,
                                repository |-> NestedRepository(m, nested, relModels[i].k),
                                hasStore |-> FALSE, nested |-> EmptyMap]))

\* extendObservable(this, ...): the relation objects b become fields
ExtendObservable(m, b) ==
    IF ~b.ok THEN Fail(m) ELSE Done([m EXCEPT !.rels = b.v])

\* __parseRelations, once the forEach has grouped the paths as g
BuildGrouped(m, nested, g) ==
    IF ~g.ok THEN Fail([m EXCEPT !.current = g.v.current])
    ELSE ExtendObservable([m EXCEPT !.current = g.v.current],
                          Invoke("BuildRelations", <<[m EXCEPT !.current = g.v.current],
                                                     nested, g.v.relModels, 1, EmptyMap>>))

\* __parseRelations(activeRelations)
ParseRelations(m, activeRelations, nested) ==
    BuildGrouped([m EXCEPT !.active = activeRelations], nested,
                 GroupRelations(activeRelations, 1,
                                [relModels |-> EmptyMap, current |-> m.current]))

\* the object as the constructor has it before it reads options.relations
NewObject(cls, options) ==
    [k |-> "Model", cls |-> cls, attrs |-> Defaults(cls),
     active |-> <<>>, current |-> <<>>, rels |-> EmptyMap,
     repository |-> options.repository, hasStore |-> options.hasStore]

\* if (data) this.parse(data), r1 being the object with its relations
ParseInitial(r1, data) ==
    IF r1.ok /\ Truthy(data) THEN Invoke("ModelParse", <<r1.v, data>>) ELSE r1

\* new Model(data, options)
NewModel(cls, data, options) ==
    ParseInitial(IF Truthy(options.relations)
                   THEN ParseRelations(NewObject(cls, options), options.relations.a,
                                       options.nested)
                   ELSE Done(NewObject(cls, options)),
                 data)

-----------------------------------------------------------------------------
(* parse and __addFromRepository *)

\* get(value, '[0]')
First(val) ==
    IF isArray(val) /\ val.a # <<>> THEN val.a[1] ELSE Undefined

\* this[attr].parse(value) or this[attr].__addFromRepository(value)
ParseRelation(rel, value) ==
    IF isPlainObject(value) \/ isPlainObject(First(value))
      THEN (IF rel.k = "Store" THEN Invoke("StoreParse", <<rel, value>>)
                              ELSE Invoke("ModelParse", <<rel, value>>))
      ELSE (IF rel.k = "Store" THEN Invoke("StoreAddFromRepository", <<rel, value>>)
                              ELSE Invoke("ModelAddFromRepository", <<rel, value>>))

\* this[attr] = value for a relation: the field holds what the data holds
ParsedRelationRaw(m, data, i, attr, r) ==
    Invoke("ParseKeys", <<[m EXCEPT !.rels = Put(m.rels, attr, data[i].v)], data, i + 1>>)

\* the relation attr parsed as r, then the next keys
ParsedRelation(m, data, i, attr, r) ==
    IF ~r.ok THEN Fail([m EXCEPT !.rels = Put(m.rels, attr, r.v)])
    ELSE Invoke("ParseKeys", <<[m EXCEPT !.rels = Put(m.rels, attr, r.v)], data, i + 1>>)

\* The body of the forIn of parse for the key data[i]: attr is its name in
\* camel case
ParseKey(m, data, i, attr) ==
    IF Has(m.attrs, attr)
      THEN Invoke("ParseKeys", <<[m EXCEPT !.attrs = Put(m.attrs, attr, data[i].v)],
                                 data, i + 1>>)
    ELSE IF Includes(m.current, attr)
      THEN ParsedRelation(m, data, i, attr, ParseRelation(Get(m.rels, attr), data[i].v))
    ELSE Invoke("ParseKeys", <<m, data, i + 1>>)

\* The forIn of parse over the keys data[i..]
ParseKeys(m, data, i) ==
    IF i > Len(data) THEN Done(m) ELSE ParseKey(m, data, i, snakeToCamel(data[i].k))

\* Model.parse(data)
ModelParse(m, data) ==
    IF ~isPlainObject(data) THEN Fail(m) ELSE Invoke("ParseKeys", <<m, data.o, 1>>)

\* the positions of the records of the repository whose key is id
Hits(repository, key, id) ==
    {i \in 1..Len(repository.a) :
        /\ isPlainObject(repository.a[i])
        /\ Has(repository.a[i].o, key)
        /\ Get(repository.a[i].o, key) = id}

Least(hits) == CHOOSE i \in hits : \A j \in hits : i <= j
Greatest(hits) == CHOOSE i \in hits : \A j \in hits : i >= j

FirstHit(repository, hits) ==
    IF hits = {} THEN Undefined ELSE repository.a[Least(hits)]
LastHit(repository, hits) ==
    IF hits = {} THEN Undefined ELSE repository.a[Greatest(hits)]

\* find(this.__repository, { id }): the first record whose id is the one
\* looked for, undefined when there is none or no repository
FindInRepository(repository, id) ==
    IF ~isArray(repository) THEN Undefined
    ELSE FirstHit(repository, Hits(repository, nId, id))

\* if (relData) this.parse(relData)
ParseFound(m, relData) ==
    IF Truthy(relData) THEN Invoke("ModelParse", <<m, relData>>) ELSE Done(m)

\* Model.__addFromRepository(id)
ModelAddFromRepository(m, id) == ParseFound(m, FindInRepository(m.repository, id))

\* at(keyBy(this.__repository, 'id'), [id]): of the records with that id the
\* last one, undefined when there is none or no repository
KeyByAt(repository, id) ==
    IF ~isArray(repository) THEN Undefined
    ELSE LastHit(repository, Hits(repository, primaryKey, id))

\* the model r built for records[i], then the next ones
CollectModel(s, records, i, acc, r) ==
    IF ~r.ok THEN Fail(acc)
    ELSE Invoke("NewModels", <<s, records, i + 1, Append(acc, r.v)>>)

\* the options a Store gives to the models it builds
MemberOptions(s) ==
    [relations |-> Arr(s.active), repository |-> Undefined,
     hasStore |-> TRUE, nested |-> s.nested]

\* records.map(record => new this.Model(record, {store: this, relations:
\* this.__activeRelations})) over records[i..]
NewModels(s, records, i, acc) ==
    IF i > Len(records) THEN Done(acc)
    ELSE CollectModel(s, records, i, acc,
                      Invoke("NewModel", <<s.cls, records[i], MemberOptions(s)>>))

\* this.models.push(...): the models r are added to the members there are
ReplaceAppends(s, r) == IF ~r.ok THEN Fail(s) ELSE Done([s EXCEPT !.models = @ \o r.v])

\* this.models.replace(...) with the models r, when building them did not throw
Replace(s, r) == IF ~r.ok THEN Fail(s) ELSE Done([s EXCEPT !.models = r.v])

\* ids = [] by default, then ids = isArray(ids) ? ids : [ids]
IdList(ids) ==
    IF ids.t = "undefined" THEN <<>> ELSE IF isArray(ids) THEN ids.a ELSE <<ids>>

RecordsAt(repository, ids) == [i \in 1..Len(ids) |-> KeyByAt(repository, ids[i])]

\* Store.__addFromRepository(ids = [])
StoreAddFromRepository(s, ids) ==
    Replace(s, Invoke("NewModels", <<s, RecordsAt(s.repository, IdList(ids)), 1, <<>>>>))

\* Store.parse(models)
StoreParse(s, models) ==
    IF ~isArray(models) THEN Fail(s)
    ELSE Replace(s, Invoke("NewModels", <<s, models.a, 1, <<>>>>))

\* The definition named f applied to the arguments a
Invoke(f, a) ==
    CASE f = "NewModel" -> NewModel(a[1], a[2], a[3])
      [] f = "BuildRelations" -> BuildRelations(a[1], a[2], a[3], a[4], a[5])
      [] f = "ModelParse" -> ModelParse(a[1], a[2])
      [] f = "ParseKeys" -> ParseKeys(a[1], a[2], a[3])
      [] f = "StoreParse" -> StoreParse(a[1], a[2])
      [] f = "NewModels" -> NewModels(a[1], a[2], a[3], a[4])
      [] f = "ModelAddFromRepository" -> ModelAddFromRepository(a[1], a[2])
      [] f = "StoreAddFromRepository" -> StoreAddFromRepository(a[1], a[2])

-----------------------------------------------------------------------------
(* toBackend and toBackendAll *)

\* A synthesizer that does not read the counter
generateSameId(u) == 0 - 1

\* lodash uniqueId(), then generateNegativeId(): u is the counter before the
\* call; the counter after it is u + 1
generateNegativeId(u) == 0 - (u + 1)

\* Store.mapByPrimaryKey()
mapByPrimaryKey(s) == Arr([i \in 1..Len(s.models) |-> Pk(s.models[i])])

\* The first forEach of toBackend, over the attributes attrs[i..]
RECURSIVE AttrsToBackend(_, _, _)
AttrsToBackend(attrs, i, output) ==
    IF i > Len(attrs) THEN output
    ELSE AttrsToBackend(attrs, i + 1,
           IF ~StartsWith(attrs[i].k, <<"_">>)
             THEN Put(output, snakeCase(attrs[i].k), attrs[i].v)
             ELSE output)

\* rel[rel.constructor.primaryKey] of a Model, rel.mapByPrimaryKey() of a Store
Reference(rel) == IF rel.k = "Store" THEN mapByPrimaryKey(rel) ELSE Pk(rel)

\* The second forEach of toBackend, over the relations current[i..]
RECURSIVE RelsToBackend(_, _, _)
RelsToBackend(m, i, output) ==
    IF i > Len(m.current) THEN output
    ELSE RelsToBackend(m, i + 1,
                       Put(output, snakeCase(m.current[i]),
                           Reference(Get(m.rels, m.current[i]))))

\* Model.toBackend()
toBackend(m) == RelsToBackend(m, 1, AttrsToBackend(m.attrs, 1, EmptyMap))

\* data[relBackendName].map(id => id === null ? generateNegativeId() : id)
\* over ids[i..]; returns the new list and the counter
RECURSIVE FillNewIds(_, _, _, _)
FillNewIds(ids, i, acc, u) ==
    IF i > Len(ids) THEN [ids |-> Arr(acc), uid |-> u]
    ELSE IF ids[i] = Null
      THEN FillNewIds(ids, i + 1, Append(acc, Num(generateNegativeId(u))), u + 1)
      ELSE FillNewIds(ids, i + 1, Append(acc, ids[i]), u)

\* relations[key] = relations[key] ? relations[key].concat(relB) : relB
MergeOne(relations, key, relB) ==
    Put(relations, key, IF Has(relations, key) THEN Get(relations, key) \o relB ELSE relB)

\* forIn(<child>.relations, (relB, key) => ...) over childRelations[i..]
RECURSIVE MergeRelations(_, _, _)
MergeRelations(relations, childRelations, i) ==
    IF i > Len(childRelations) THEN relations
    ELSE MergeRelations(MergeOne(relations, childRelations[i].k, childRelations[i].v),
                        childRelations, i + 1)

\* relations[relBackendName] = relBackendData.data, then the forIn above
MergeChild(relations, relBackendName, relBackendData) ==
    MergeRelations(Put(relations, relBackendName, relBackendData.data),
                   relBackendData.relations, 1)

\* The two ifs on data[relBackendName]: myNewId and the counter after them
NewIdFor(ref, u) ==
    IF ref = Null THEN [ids |-> Num(generateNegativeId(u)), uid |-> u + 1]
    ELSE IF isArray(ref) THEN FillNewIds(ref.a, 1, <<>>, u)
    ELSE [ids |-> Null, uid |-> u]

\* toBackendAll calls itself through the relations; as above, such a call is
\* written InvokeAll(name, arguments)
RECURSIVE InvokeAll(_, _)

\* rel.toBackendAll(myNewId)
RelToBackendAll(rel, myNewId, u) ==
    IF rel.k = "Store" THEN InvokeAll("StoreToBackendAll", <<rel, myNewId, u>>)
                       ELSE InvokeAll("ModelToBackendAll", <<rel, myNewId, u>>)

\* the relation current[i] flattened as relBackendData, then the next ones
RelMerged(m, i, data, relations, relBackendName, relBackendData) ==
    InvokeAll("RelsToBackendAll",
              <<m, i + 1, data, MergeChild(relations, relBackendName, relBackendData),
                relBackendData.uid>>)

\* The body of the forEach of toBackendAll for the relation current[i], new
\* being myNewId and the counter after the ifs
RelToBackend(m, i, data, relations, relBackendName, new) ==
    RelMerged(m, i,
              IF new.ids = Null THEN data ELSE Put(data, relBackendName, new.ids),
              relations, relBackendName,
              RelToBackendAll(Get(m.rels, m.current[i]), new.ids, new.uid))

\* The forEach of Model.toBackendAll over the relations current[i..]; data is
\* the entity's own record, relations the output map, u the counter
RelsToBackendAll(m, i, data, relations, u) ==
    IF i > Len(m.current) THEN [data |-> <<data>>, relations |-> relations, uid |-> u]
    ELSE RelToBackend(m, i, data, relations, snakeCase(m.current[i]),
                      NewIdFor(Get(data, snakeCase(m.current[i])), u))

\* if (newId) ... else if (data[primaryKey] === null) ...: TRUE when an
\* identifier is generated
GeneratesId(data, newId) ==
    ~Truthy(newId) /\ Has(data, primaryKey) /\ Get(data, primaryKey) = Null

\* Model.toBackendAll(newId) from the record data that toBackend() returned
OwnRecord(m, data, newId, u) ==
    InvokeAll("RelsToBackendAll",
              <<m, 1,
                IF Truthy(newId) THEN Put(data, primaryKey, newId)
                ELSE IF GeneratesId(data, newId)
                  THEN Put(data, primaryKey, Num(generateNegativeId(u)))
                ELSE data,
                EmptyMap,
                IF GeneratesId(data, newId) THEN u + 1 ELSE u>>)

\* Model.toBackendAll(newId), with the counter u
ModelToBackendAll(m, newId, u) == OwnRecord(m, toBackend(m), newId, u)

\* newIds && newIds[i] !== undefined ? newIds[i] : null
NewIdAt(newIds, i) ==
    IF Truthy(newIds) /\ isArray(newIds) /\ i <= Len(newIds.a) THEN newIds.a[i] ELSE Null

\* the member models[i] flattened as model, then the next ones
MemberMerged(s, newIds, i, acc, model) ==
    InvokeAll("MembersToBackendAll",
              <<s, newIds, i + 1,
                [data |-> acc.data \o model.data,
                 relations |-> MergeRelations(acc.relations, model.relations, 1)],
                model.uid>>)

\* The map and the forEach of Store.toBackendAll over the members models[i..]
MembersToBackendAll(s, newIds, i, acc, u) ==
    IF i > Len(s.models) THEN [data |-> acc.data, relations |-> acc.relations, uid |-> u]
    ELSE MemberMerged(s, newIds, i, acc,
                      InvokeAll("ModelToBackendAll", <<s.models[i], NewIdAt(newIds, i), u>>))

\* Store.toBackendAll(newIds = [])
StoreToBackendAll(s, newIds, u) ==
    InvokeAll("MembersToBackendAll",
              <<s, IF newIds.t = "undefined" THEN Arr(<<>>) ELSE newIds, 1,
                [data |-> <<>>, relations |-> EmptyMap], u>>)

\* The definition named f applied to the arguments a
InvokeAll(f, a) ==
    CASE f = "ModelToBackendAll" -> ModelToBackendAll(a[1], a[2], a[3])
      [] f = "RelsToBackendAll" -> RelsToBackendAll(a[1], a[2], a[3], a[4], a[5])
      [] f = "StoreToBackendAll" -> StoreToBackendAll(a[1], a[2], a[3])
      [] f = "MembersToBackendAll" -> MembersToBackendAll(a[1], a[2], a[3], a[4], a[5])

-----------------------------------------------------------------------------
(* fromBackend *)

\* lodash get(this, path) along the relation fields: path is the list of the
\* segments; a Store has no relation field.  [found, node]
RECURSIVE GetPath(_, _)
GetPath(node, segs) ==
    IF segs = <<>> THEN [found |-> TRUE, node |-> node]
    ELSE IF node.k = "Model" /\ Has(node.rels, Head(segs))
      THEN GetPath(Get(node.rels, Head(segs)), Tail(segs))
    ELSE [found |-> FALSE, node |-> node]

\* The object graph with the node at the path replaced
RECURSIVE SetPath(_, _, _)
SetPath(node, segs, new) ==
    IF segs = <<>> THEN new
    ELSE [node EXCEPT !.rels = Put(node.rels, Head(segs),
                                   SetPath(Get(node.rels, Head(segs)), Tail(segs), new))]

\* the segments of snakeToCamel(relName)
CamelSegs(relName) == Split(snakeToCamel(relName), <<>>, <<>>)

\* subRel instanceof Store, subRel being get(this, snakeToCamel(subRelName))
IsStoreAt(subRel) == subRel.found /\ subRel.node.k = "Store"

\* The for loop of fromBackend over i..: the least position such that the
\* segments of rels up to it lead to a Store, 0 when there is none
RECURSIVE FirstStore(_, _, _)
FirstStore(m, rels, i) ==
    IF i > Len(rels) THEN 0
    ELSE IF IsStoreAt(GetPath(m, CamelSegs(Join(SubSeq(rels, 1, i))))) THEN i
    ELSE FirstStore(m, rels, i + 1)

\* store.__nestedRepository[nestedRel] = repository, the store being at
\* storePath; without a store the assignment throws
SetNested(m, found, storePath, nestedRel, repository) ==
    IF ~found THEN Fail(m)
    ELSE Done(SetPath(m, storePath,
                      [GetPath(m, storePath).node EXCEPT
                         !.nested = Put(@, nestedRel, repository)]))

\* The branch of fromBackend for a relation that get() does not find: rels
\* is relName.split('.'), i the position of the first Store
AttachNested(m, rels, i, repository) ==
    SetNested(m, i > 0, CamelSegs(Join(SubSeq(rels, 1, i))),
              Join(SubSeq(rels, i + 1, Len(rels))), repository)

\* model.__repository = repository, the model being at path
SetRepository(m, path, repository) ==
    Done(SetPath(m, path, [GetPath(m, path).node EXCEPT !.repository = repository]))

\* The body of the forIn of fromBackend over relMapping
AttachRepository(m, relName, repository) ==
    IF GetPath(m, CamelSegs(relName)).found
      THEN SetRepository(m, CamelSegs(relName), repository)
      ELSE AttachNested(m, Split(relName, <<>>, <<>>),
                        FirstStore(m, Split(relName, <<>>, <<>>), 1), repository)

\* repos[repoName]
RepositoryOf(repos, repoName) ==
    IF Has(repos, repoName) THEN Get(repos, repoName) ELSE Undefined

\* the entry relMapping[i] attached as r, then the next ones
RECURSIVE AttachRepositories(_, _, _, _)
AttachedOne(r, repos, relMapping, i) ==
    IF ~r.ok THEN r ELSE AttachRepositories(r.v, repos, relMapping, i + 1)

\* The forIn of fromBackend over the entries relMapping[i..]
AttachRepositories(m, repos, relMapping, i) ==
    IF i > Len(relMapping) THEN Done(m)
    ELSE AttachedOne(AttachRepository(m, relMapping[i].k,
                                      RepositoryOf(repos, relMapping[i].v)),
                     repos, relMapping, i)

\* the field of the payload, undefined when it has none
Field(res, name) == IF Has(res.o, name) THEN Get(res.o, name) ELSE Undefined

\* the entries of repos or relMapping: forIn(undefined) has none
Entries(val) == IF isPlainObject(val) THEN val.o ELSE EmptyMap

\* if (data) this.parse(data), r being the entity with its repositories
ParseData(r, data) ==
    IF r.ok /\ Truthy(data) THEN ModelParse(r.v, data) ELSE r

\* Model.fromBackend({data, repos, relMapping}); res = undefined makes the
\* destructuring throw
ModelFromBackend(m, res) ==
    IF res.t # "obj" THEN Fail(m)
    ELSE ParseData(AttachRepositories(m, Entries(Field(res, <<"repos">>)),
                                      Entries(Field(res, <<"relMapping">>)), 1),
                   Field(res, <<"data">>))

-----------------------------------------------------------------------------
(* Request lifecycle of one entity: save, saveAll, fetch, delete.  The       *)
(* transport adapter settles each request at any later time, in any order.   *)
(* A call is [op, immediate, st, net, err]: st is "pending" until the        *)
(* promise the call returned settles ("fulfilled", "rejected"), "thrown"     *)
(* when the call threw instead of returning a promise; net is what the call  *)
(* has added to pendingRequestCount so far; err is the error it raised.      *)

NoOptions == [relations |-> Undefined, repository |-> Undefined,
              hasStore |-> FALSE, nested |-> EmptyMap]

NoError == [kind |-> "none", valErrors |-> {}]
\* an Error thrown by this code (TypeError, Error): it has no valErrors
CodeError == [kind |-> "code", valErrors |-> {}]
\* what the adapter rejects with: with or without valErrors
AdapterErrors ==
    {[kind |-> "plain", valErrors |-> {}],
     [kind |-> "validation", valErrors |-> {"name"}],
     [kind |-> "validation", valErrors |-> {"id", "name"}]}

\* what the adapter resolves with: nothing, a payload without data, a payload
\* whose data is no object, a payload with the record of the entity
Responses ==
    {Undefined, Obj(EmptyMap), Obj(<<KV(<<"data">>, Num(1))>>)}
    \cup {Obj(<<KV(<<"data">>, Obj(<<KV(nId, Num(i))>>))>>) : i \in 1..MaxId}

\* __getApi(): TRUE when it throws
GetApiThrows(hasApi, hasUrl) == ~hasApi \/ ~hasUrl

Call(op, immediate, st, net, err) ==
    [op |-> op, immediate |-> immediate, st |-> st, net |-> net, err |-> err]

Started(op, immediate) ==
    IF GetApiThrows(api, urlRoot) THEN Call(op, immediate, "thrown", 1, CodeError)
                                  ELSE Call(op, immediate, "pending", 1, NoError)

Pending(i, op) == i \in 1..Len(calls) /\ calls[i].op = op /\ calls[i].st = "pending"

\* The promise of call i settles as st after dec decrements, raising err;
\* what is what the adapter did ("resolved", "rejected"), with the error cause
Settle(i, st, dec, err, what, cause) ==
    /\ calls' = [calls EXCEPT ![i] = [@ EXCEPT !.st = st, !.net = @ - dec, !.err = err]]
    /\ event' = [call |-> i, what |-> what, err |-> cause]

\* A catch handler that decrements and re-raises without reading err.valErrors
SaveCatchKeepsErrors(errors, err) == errors

\* The catch handler of save: what it leaves in __backendValidationErrors
SaveCatchErrors(errors, err) ==
    IF err.kind = "validation" THEN err.valErrors ELSE errors

\* A save() that increments the counter and leaves __backendValidationErrors
SaveKeepsErrors ==
    /\ Len(calls) < MaxCalls
    /\ backendValidationErrors' = backendValidationErrors
    /\ pendingRequestCount' = pendingRequestCount + 1
    /\ calls' = Append(calls, Started("save", FALSE))
    /\ event' = [call |-> Len(calls) + 1, what |-> "called", err |-> NoError]
    /\ UNCHANGED <<self, api, urlRoot, member, uid>>
    /\ ReqFrame

\* save(options): the call itself
Save ==
    /\ Len(calls) < MaxCalls
    /\ backendValidationErrors' = {}
    /\ pendingRequestCount' = pendingRequestCount + 1
    /\ calls' = Append(calls, Started("save", FALSE))
    /\ event' = [call |-> Len(calls) + 1, what |-> "called", err |-> NoError]
    /\ UNCHANGED <<self, api, urlRoot, member, uid>>
    /\ ReqFrame

\* save: saveModel resolved with res; the then handler, and the catch handler
\* when fromBackend throws in it
SaveResolved(i, res) ==
    /\ Pending(i, "save")
    /\ LET r == ModelFromBackend(self, res) IN
         /\ self' = r.v
         /\ IF r.ok
              THEN /\ pendingRequestCount' = pendingRequestCount - 1
                   /\ backendValidationErrors' = backendValidationErrors
                   /\ Settle(i, "fulfilled", 1, NoError, "resolved", NoError)
              ELSE /\ pendingRequestCount' = (pendingRequestCount - 1) - 1
                   /\ backendValidationErrors' =
                        SaveCatchErrors(backendValidationErrors, CodeError)
                   /\ Settle(i, "rejected", 2, CodeError, "resolved", NoError)
    /\ UNCHANGED <<api, urlRoot, member, uid>>
    /\ ReqFrame

\* save: saveModel rejected with err; the catch handler
SaveRejected(i, err) ==
    /\ Pending(i, "save")
    /\ pendingRequestCount' = pendingRequestCount - 1
    /\ backendValidationErrors' = SaveCatchErrors(backendValidationErrors, err)
    /\ Settle(i, "rejected", 1, err, "rejected", err)
    /\ UNCHANGED <<self, api, urlRoot, member, uid>>
    /\ ReqFrame

\* saveAll(): the call itself; toBackendAll() is evaluated after __getApi()
SaveAll ==
    /\ Len(calls) < MaxCalls
    /\ backendValidationErrors' = {}
    /\ pendingRequestCount' = pendingRequestCount + 1
    /\ calls' = Append(calls, Started("saveAll", FALSE))
    /\ event' = [call |-> Len(calls) + 1, what |-> "called", err |-> NoError]
    /\ uid' = IF GetApiThrows(api, urlRoot) THEN uid
              ELSE ModelToBackendAll(self, Undefined, uid).uid
    /\ UNCHANGED <<self, api, urlRoot, member>>
    /\ ReqFrame

\* saveAll: saveAllModels resolved with res
SaveAllResolved(i, res) ==
    /\ Pending(i, "saveAll")
    /\ LET r == ModelFromBackend(self, res) IN
         /\ self' = r.v
         /\ IF r.ok
              THEN /\ pendingRequestCount' = pendingRequestCount - 1
                   /\ Settle(i, "fulfilled", 1, NoError, "resolved", NoError)
              ELSE /\ pendingRequestCount' = (pendingRequestCount - 1) - 1
                   /\ Settle(i, "rejected", 2, CodeError, "resolved", NoError)
    /\ UNCHANGED <<api, urlRoot, backendValidationErrors, member, uid>>
    /\ ReqFrame

\* saveAll: saveAllModels rejected with err
SaveAllRejected(i, err) ==
    /\ Pending(i, "saveAll")
    /\ pendingRequestCount' = pendingRequestCount - 1
    /\ Settle(i, "rejected", 1, err, "rejected", err)
    /\ UNCHANGED <<self, api, urlRoot, backendValidationErrors, member, uid>>
    /\ ReqFrame

\* fetch(options): the call itself
Fetch ==
    /\ Len(calls) < MaxCalls
    /\ IF isNew(self)
         THEN /\ calls' = Append(calls, Call("fetch", FALSE, "thrown", 0, CodeError))
              /\ UNCHANGED pendingRequestCount
         ELSE /\ calls' = Append(calls, Started("fetch", FALSE))
              /\ pendingRequestCount' = pendingRequestCount + 1
    /\ event' = [call |-> Len(calls) + 1, what |-> "called", err |-> NoError]
    /\ UNCHANGED <<self, api, urlRoot, backendValidationErrors, member, uid>>
    /\ ReqFrame

\* fetch: fetchModel resolved with res
FetchResolved(i, res) ==
    /\ Pending(i, "fetch")
    /\ LET r == ModelFromBackend(self, res) IN
         /\ self' = r.v
         /\ IF r.ok
              THEN /\ pendingRequestCount' = pendingRequestCount - 1
                   /\ Settle(i, "fulfilled", 1, NoError, "resolved", NoError)
              ELSE /\ UNCHANGED pendingRequestCount
                   /\ Settle(i, "rejected", 0, CodeError, "resolved", NoError)
    /\ UNCHANGED <<api, urlRoot, backendValidationErrors, member, uid>>
    /\ ReqFrame

\* fetch: fetchModel rejected with err; fetch has no rejection handler
FetchRejected(i, err) ==
    /\ Pending(i, "fetch")
    /\ Settle(i, "rejected", 0, err, "rejected", err)
    /\ UNCHANGED <<self, api, urlRoot, pendingRequestCount, backendValidationErrors,
                   member, uid>>
    /\ ReqFrame

\* A delete(options) that calls removeFromStore() at once, whatever the options
DeleteRemovesAtOnce(immediate) ==
    /\ Len(calls) < MaxCalls
    /\ member' = FALSE
    /\ IF isNew(self)
         THEN /\ calls' = Append(calls, Call("delete", immediate, "fulfilled", 0, NoError))
              /\ UNCHANGED pendingRequestCount
         ELSE /\ calls' = Append(calls, Started("delete", immediate))
              /\ pendingRequestCount' = pendingRequestCount + 1
    /\ event' = [call |-> Len(calls) + 1, what |-> "called", err |-> NoError]
    /\ UNCHANGED <<self, api, urlRoot, backendValidationErrors, uid>>
    /\ ReqFrame

\* delete(options): the call itself; removeFromStore() takes the entity out
\* of the models of its __store
Delete(immediate) ==
    /\ Len(calls) < MaxCalls
    /\ member' = IF immediate \/ isNew(self) THEN FALSE ELSE member
    /\ IF isNew(self)
         THEN /\ calls' = Append(calls, Call("delete", immediate, "fulfilled", 0, NoError))
              /\ UNCHANGED pendingRequestCount
         ELSE /\ calls' = Append(calls, Started("delete", immediate))
              /\ pendingRequestCount' = pendingRequestCount + 1
    /\ event' = [call |-> Len(calls) + 1, what |-> "called", err |-> NoError]
    /\ UNCHANGED <<self, api, urlRoot, backendValidationErrors, uid>>
    /\ ReqFrame

\* delete: deleteModel resolved
DeleteResolved(i) ==
    /\ Pending(i, "delete")
    /\ pendingRequestCount' = pendingRequestCount - 1
    /\ member' = IF ~calls[i].immediate THEN FALSE ELSE member
    /\ Settle(i, "fulfilled", 1, NoError, "resolved", NoError)
    /\ UNCHANGED <<self, api, urlRoot, backendValidationErrors, uid>>
    /\ ReqFrame

\* delete: deleteModel rejected with err; delete has no rejection handler
DeleteRejected(i, err) ==
    /\ Pending(i, "delete")
    /\ Settle(i, "rejected", 0, err, "rejected", err)
    /\ UNCHANGED <<self, api, urlRoot, pendingRequestCount, backendValidationErrors,
                   member, uid>>
    /\ ReqFrame

ReqInit ==
    /\ \E persisted \in BOOLEAN, inStore \in BOOLEAN :
         /\ self = NewModel("Animal",
                            IF persisted THEN Obj(<<KV(nId, Num(1))>>) ELSE Null,
                            [NoOptions EXCEPT !.hasStore = inStore]).v
         /\ member = inStore
    /\ api \in BOOLEAN
    /\ urlRoot \in BOOLEAN
    /\ pendingRequestCount = 0
    /\ backendValidationErrors = {}
    /\ calls = <<>>
    /\ event = [call |-> 0, what |-> "constructed", err |-> NoError]

ReqNext ==
    \/ Save
    \/ SaveAll
    \/ Fetch
    \/ \E immediate \in BOOLEAN : Delete(immediate)
    \/ \E i \in 1..MaxCalls, res \in Responses : SaveResolved(i, res)
    \/ \E i \in 1..MaxCalls, err \in AdapterErrors : SaveRejected(i, err)
    \/ \E i \in 1..MaxCalls, res \in Responses : SaveAllResolved(i, res)
    \/ \E i \in 1..MaxCalls, err \in AdapterErrors : SaveAllRejected(i, err)
    \/ \E i \in 1..MaxCalls, res \in Responses : FetchResolved(i, res)
    \/ \E i \in 1..MaxCalls, err \in AdapterErrors : FetchRejected(i, err)
    \/ \E i \in 1..MaxCalls : DeleteResolved(i)
    \/ \E i \in 1..MaxCalls, err \in AdapterErrors : DeleteRejected(i, err)

-----------------------------------------------------------------------------
(* Membership of a collection *)

\* id == other, for the values identifiers take
LooseEq(a, b) ==
    \/ a = b
    \/ a.t \in {"null", "undefined"} /\ b.t \in {"null", "undefined"}

\* Store.get(id): TRUE when a member is found
StoreHas(s, id) == \E i \in 1..Len(s.models) : LooseEq(Pk(s.models[i]), id)

\* The forEach of add over modelInstances[i..]
RECURSIVE AddEach(_, _, _)
AddEach(s, modelInstances, i) ==
    IF i > Len(modelInstances) THEN Done(s)
    ELSE IF Truthy(Pk(modelInstances[i])) /\ StoreHas(s, Pk(modelInstances[i]))
      THEN Fail(s)
    ELSE AddEach([s EXCEPT !.models = Append(@, modelInstances[i])],
                 modelInstances, i + 1)

\* add, once models.map(this._newModel.bind(this)) gave r
AddInstances(s, r) == IF ~r.ok THEN Fail(s) ELSE AddEach(s, r.v, 1)

\* Store.add(models)
StoreAdd(s, models) ==
    AddInstances(s, NewModels(s, IF isArray(models) THEN models.a ELSE <<models>>,
                              1, <<>>))

\* Store.remove(model), the model being the member at position i
StoreRemove(s, i) ==
    [s EXCEPT !.models = SubSeq(@, 1, i - 1) \o SubSeq(@, i + 1, Len(@))]

\* Store.clear()
StoreClear(s) == [s EXCEPT !.models = <<>>]

\* Model.clear(): the attributes get the values the constructor found, and
\* every active relation is cleared; Store.clear() for a collection
RECURSIVE ModelClear(_)
ModelClear(m) ==
    IF m.k = "Store" THEN StoreClear(m)
    ELSE [m EXCEPT !.attrs = Defaults(m.cls),
                   !.rels = [i \in 1..Len(m.rels) |->
                               KV(m.rels[i].k, ModelClear(m.rels[i].v))]]

\* this.models[index]: undefined when there is no such position
ElementAt(models, index) ==
    IF index >= 0 /\ index < Len(models) THEN models[index + 1] ELSE Undefined

\* Store.at(index)
StoreAt(s, index) ==
    IF index > Len(s.models) - 1 THEN Fail(Undefined)
    ELSE Done(ElementAt(s.models, IF index < 0 THEN index + Len(s.models) ELSE index))

\* model.fromBackend({data: record, repos, relMapping}) on the model that
\* this._newModel() returned
MemberFromBackend(model, res, record) ==
    IF ~model.ok THEN model
    ELSE ModelFromBackend(model.v, Obj(Put(res.o, <<"data">>, record)))

\* the model r built for records[i], then the next ones
RECURSIVE MembersFromBackend(_, _, _, _, _)
CollectMember(s, res, records, i, acc, r) ==
    IF ~r.ok THEN Fail(acc)
    ELSE MembersFromBackend(s, res, records, i + 1, Append(acc, r.v))

\* data.map(record => { model = this._newModel(); model.fromBackend(...);
\* return model }) over records[i..]
MembersFromBackend(s, res, records, i, acc) ==
    IF i > Len(records) THEN Done(acc)
    ELSE CollectMember(s, res, records, i, acc,
                       MemberFromBackend(NewModel(s.cls, Null, MemberOptions(s)),
                                         res, records[i]))

\* Store.fromBackend({data, repos, relMapping})
StoreFromBackend(s, res) ==
    IF res.t # "obj" THEN Fail(s)
    ELSE IF ~isArray(Field(res, <<"data">>)) THEN Fail(s)
    ELSE Replace(s, MembersFromBackend(s, res, Field(res, <<"data">>).a, 1, <<>>))

MaxMembers == 3     \* a collection is not added to beyond this length

Person(id, name) == Obj(<<KV(nId, id), KV(nName, Str(name))>>)
NewPerson(name) == Obj(<<KV(nName, Str(name))>>)

\* the repository of the collection, as a fromBackend of its owner attached it
PersonRepository == Arr(<<Person(Num(1), sDog), Person(Num(2), sCat)>>)

\* an entity built by the caller, given to add() as it is
Prebuilt(data) == [t |-> "model", m |-> NewModel("Person", data, NoOptions).v]

Records == {Person(Num(i), sDog) : i \in 1..MaxId} \cup {NewPerson(sCat)}

AddInputs ==
    Records
    \cup {Arr(<<a, b>>) : a \in Records, b \in Records}
    \cup {Prebuilt(Person(Num(1), sCat))}

ParseInputs ==
    {Arr(<<>>), Num(1)}
    \cup {Arr(<<a>>) : a \in Records}
    \cup {Arr(<<a, b>>) : a \in Records, b \in Records}

IdInputs ==
    {Undefined, Null, Arr(<<>>)}
    \cup {Num(i) : i \in 1..MaxId + 1}
    \cup {Arr(<<Num(i), Num(j)>>) : i \in 1..MaxId, j \in 1..MaxId}

StoreResponses ==
    {Undefined, Obj(EmptyMap)}
    \cup {Obj(<<KV(<<"data">>, d)>>) : d \in ParseInputs}

StoreInit ==
    /\ store = [NewStore("Person", NoOptions).v EXCEPT !.repository = PersonRepository]
    /\ before = store
    /\ lastOp = [op |-> "new", input |-> Undefined, ok |-> TRUE]

Finish(op, input, r) ==
    /\ store' = r.v
    /\ before' = store
    /\ lastOp' = [op |-> op, input |-> input, ok |-> r.ok]

Add(models) ==
    /\ Len(store.models) < MaxMembers
    /\ Finish("add", models, StoreAdd(store, models))
    /\ StoreFrame

Remove(i) ==
    /\ i \in 1..Len(store.models)
    /\ Finish("remove", Num(i), Done(StoreRemove(store, i)))
    /\ StoreFrame

Clear ==
    /\ store.models # <<>>
    /\ Finish("clear", Undefined, Done(StoreClear(store)))
    /\ StoreFrame

Parse(models) ==
    /\ Finish("parse", models, StoreParse(store, models))
    /\ StoreFrame

FromBackend(res) ==
    /\ Finish("fromBackend", res, StoreFromBackend(store, res))
    /\ StoreFrame

AddFromRepository(ids) ==
    /\ Finish("__addFromRepository", ids, StoreAddFromRepository(store, ids))
    /\ StoreFrame

\* at(index): the collection is only read; lastOp keeps what the call returned
At(index) ==
    /\ lastOp' = [op |-> "at", input |-> Num(index),
                  ok |-> StoreAt(store, index).ok, result |-> StoreAt(store, index).v]
    /\ before' = store
    /\ UNCHANGED store
    /\ StoreFrame

IndexInputs == (0 - (MaxMembers + 1))..(MaxMembers + 1)

StoreNext ==
    \/ \E index \in IndexInputs : At(index)
    \/ \E models \in AddInputs : Add(models)
    \/ \E i \in 1..MaxMembers + 1 : Remove(i)
    \/ Clear
    \/ \E models \in ParseInputs : Parse(models)
    \/ \E res \in StoreResponses : FromBackend(res)
    \/ \E ids \in IdInputs : AddFromRepository(ids)

-----------------------------------------------------------------------------
(* Pagination of a collection.  A number given by the caller is [n, frac]:   *)
(* n when frac is FALSE, n + 1/2 when it is TRUE.                            *)

IsInteger(x) == ~x.frac
\* x > k and x < k for an integer k
Greater(x, k) == x.n > k \/ (x.n = k /\ x.frac)
Less(x, k) == x.n < k

\* Math.ceil(a / b) for a >= 0 and b # 0
Ceil(a, b) == IF b > 0 THEN (a + b - 1) \div b ELSE 0 - (a \div (0 - b))

\* get totalPages
totalPages(st) ==
    IF ~Truthy(st.limit) THEN 0 ELSE Ceil(st.totalRecords, st.limit.n)

\* get hasNextPage
hasNextPage(st) == st.currentPage + 1 <= totalPages(st)

\* get hasPreviousPage
hasPreviousPage(st) == st.currentPage > 1

\* The checks of a setPage that does not compare the page with totalPages
SetPageThrowsBelowOne(st, page) == ~IsInteger(page) \/ Less(page, 1)

\* The two checks of setPage: TRUE when it throws
SetPageThrows(st, page) ==
    \/ ~IsInteger(page)
    \/ Greater(page, totalPages(st)) \/ Less(page, 1)

\* options.fetch === undefined || options.fetch
WantsFetch(fetchOption) == fetchOption \in {"undefined", "true"}

PageInputs == [n : -1..MaxTotal + 1, frac : BOOLEAN]
FetchOptions == {"undefined", "true", "false"}
LimitInputs == {Null} \cup [n : -1..2, frac : BOOLEAN]

PageResponses ==
    {Undefined}
    \cup {Obj(<<KV(<<"data">>, d), KV(<<"totalRecords">>, Num(t))>>) :
            d \in {Arr(<<>>), Arr(<<Person(Num(1), sDog)>>), Undefined},
            t \in 0..MaxTotal}

NoNav == [op |-> "none", result |-> "none"]

Nav(op, page, fetchOption, result, called) ==
    [op |-> op, page |-> page, fetch |-> fetchOption, result |-> result,
     before |-> state, pending |-> storePending, fetches |-> fetches,
     fetched |-> called]

\* Store.__getApi(): TRUE when it throws
StoreGetApiThrows == ~storeApi

\* Store.fetch(options), up to the call of fetchStore
FetchCalled ==
    /\ storePending' = storePending + 1
    /\ fetches' = IF StoreGetApiThrows THEN fetches ELSE fetches + 1

FetchResult == IF StoreGetApiThrows THEN "thrown" ELSE "returned"

\* the bound on the fetch calls of one behaviour
CanFetch == storePending < MaxFetches /\ fetches < MaxFetches

\* Store.fetch(options)
StoreFetch ==
    /\ CanFetch
    /\ FetchCalled
    /\ nav' = Nav("fetch", [n |-> 0, frac |-> FALSE], "undefined", FetchResult, 1)
    /\ UNCHANGED <<state, storeApi, store, before, lastOp>>
    /\ PageFrame

\* fetch: fetchStore resolved with res
StoreFetchResolved(res) ==
    /\ fetches > 0
    /\ fetches' = fetches - 1
    /\ storePending' = storePending - 1
    /\ IF res.t # "obj"
         THEN UNCHANGED <<state, store>>
         ELSE /\ state' = [state EXCEPT !.totalRecords = Get(res.o, <<"totalRecords">>).n]
              /\ store' = StoreFromBackend(store, res).v
    /\ nav' = NoNav
    /\ UNCHANGED <<storeApi, before, lastOp>>
    /\ PageFrame

\* fetch: fetchStore rejected; fetch has no rejection handler
StoreFetchRejected ==
    /\ fetches > 0
    /\ fetches' = fetches - 1
    /\ nav' = NoNav
    /\ UNCHANGED <<state, storeApi, storePending, store, before, lastOp>>
    /\ PageFrame

\* limit && ..., limit || null: the truthiness of a limit given by the caller
LimitTruthy(limit) == IF limit = Null THEN FALSE ELSE limit.n # 0 \/ limit.frac

\* Store.setLimit(limit)
SetLimit(limit) ==
    /\ IF LimitTruthy(limit) /\ ~IsInteger(limit)
         THEN /\ nav' = Nav("setLimit", limit, "undefined", "failed", 0)
              /\ UNCHANGED state
         ELSE /\ state' = [state EXCEPT !.limit = IF LimitTruthy(limit)
                                                    THEN Num(limit.n) ELSE Null]
              /\ nav' = Nav("setLimit", limit, "undefined", "returned", 0)
    /\ UNCHANGED <<storeApi, storePending, fetches, store, before, lastOp>>
    /\ PageFrame

\* Store.getNextPage()
GetNextPage ==
    /\ IF ~hasNextPage(state)
         THEN /\ nav' = Nav("getNextPage", [n |-> 0, frac |-> FALSE], "undefined",
                            "failed", 0)
              /\ UNCHANGED <<state, storePending, fetches>>
         ELSE /\ CanFetch
              /\ state' = [state EXCEPT !.currentPage = @ + 1]
              /\ FetchCalled
              /\ nav' = Nav("getNextPage", [n |-> 0, frac |-> FALSE], "undefined",
                            FetchResult, 1)
    /\ UNCHANGED <<storeApi, store, before, lastOp>>
    /\ PageFrame

\* Store.getPreviousPage()
GetPreviousPage ==
    /\ IF ~hasPreviousPage(state)
         THEN /\ nav' = Nav("getPreviousPage", [n |-> 0, frac |-> FALSE], "undefined",
                            "failed", 0)
              /\ UNCHANGED <<state, storePending, fetches>>
         ELSE /\ CanFetch
              /\ state' = [state EXCEPT !.currentPage = @ - 1]
              /\ FetchCalled
              /\ nav' = Nav("getPreviousPage", [n |-> 0, frac |-> FALSE], "undefined",
                            FetchResult, 1)
    /\ UNCHANGED <<storeApi, store, before, lastOp>>
    /\ PageFrame

\* Store.setPage(page, options)
SetPage(page, fetchOption) ==
    /\ IF SetPageThrows(state, page)
         THEN /\ nav' = Nav("setPage", page, fetchOption, "failed", 0)
              /\ UNCHANGED <<state, storePending, fetches>>
         ELSE /\ state' = [state EXCEPT !.currentPage = page.n]
              /\ IF WantsFetch(fetchOption)
                   THEN /\ CanFetch
                        /\ FetchCalled
                        /\ nav' = Nav("setPage", page, fetchOption, FetchResult, 1)
                   ELSE /\ UNCHANGED <<storePending, fetches>>
                        /\ nav' = Nav("setPage", page, fetchOption, "returned", 0)
    /\ UNCHANGED <<storeApi, store, before, lastOp>>
    /\ PageFrame

DefaultLimit == 25

PageInit ==
    /\ state = [currentPage |-> 1, limit |-> Num(DefaultLimit), totalRecords |-> 0]
    /\ storeApi \in BOOLEAN
    /\ storePending = 0
    /\ fetches = 0
    /\ nav = NoNav

PageNext ==
    \/ StoreFetch
    \/ \E res \in PageResponses : StoreFetchResolved(res)
    \/ StoreFetchRejected
    \/ \E limit \in LimitInputs : SetLimit(limit)
    \/ GetNextPage
    \/ GetPreviousPage
    \/ \E page \in PageInputs, fetchOption \in FetchOptions : SetPage(page, fetchOption)

-----------------------------------------------------------------------------
(* The object graph of an entity: construction with a list of relations,     *)
(* parse, fromBackend, toBackendAll                                          *)

MaxUid == 4         \* toBackendAll is not called with the counter beyond this
MaxOps == 2         \* operations called on one object graph

NoOutput == [data |-> <<>>, relations |-> EmptyMap, uid |-> 0]

R(path) == Str(path)

\* the lists of relations an Animal is constructed with
RelationLists ==
    {<<R(nKind)>>,
     <<R(nPastOwners)>>,
     <<R(Dot(nOwner, nTown)), R(nTown)>>,
     <<R(nTown), R(Dot(nOwner, nTown))>>,
     <<R(nPastOwners), R(Dot(nPastOwners, nTown))>>,
     <<R(Dot(nPastOwners, nHomeTown)), R(Dot(nKind, nBreed))>>,
     <<R(Dot(nOwner, nHomeTown)), R(nKind)>>,
     <<R(Dot(nOwner, nTown)), R(Dot(nOwner, nHomeTown))>>,
     <<R(Dot(nKind, nBreed)), R(nKind)>>}

Named(name) == Obj(<<KV(nName, Str(name))>>)

\* nested data, as parse() takes it
GraphData ==
    {Obj(<<KV(nId, Num(1)), KV(nName, Str(sDog))>>),
     Obj(<<KV(snakeCase(nPastOwners), Arr(<<Named(sDog), Named(sCat), Obj(EmptyMap)>>))>>),
     Obj(<<KV(snakeCase(nPastOwners),
              Arr(<<Obj(<<KV(nId, Num(1)), KV(nTown, Named(sDog))>>),
                    Obj(<<KV(snakeCase(nHomeTown), Person(Num(2), sCat))>>)>>))>>),
     Obj(<<KV(nOwner, Obj(<<KV(nId, Num(2)), KV(nTown, Named(sCat)),
                            KV(snakeCase(nHomeTown), Named(sDog))>>)),
           KV(nTown, Person(Num(1), sDog))>>),
     Obj(<<KV(nKind, Obj(<<KV(nId, Num(2)), KV(nBreed, Named(sDog))>>))>>)}

rKind     == <<"a", "n", "i", "m", "a", "l", "_", "k", "i", "n", "d">>
rPerson   == <<"p", "e", "r", "s", "o", "n">>
rLocation == <<"l", "o", "c", "a", "t", "i", "o", "n">>

\* a record of the person repository: its towns are references
PersonRecord(id, name, town, homeTown) ==
    Obj(<<KV(nId, Num(id)), KV(nName, Str(name)), KV(nTown, Num(town)),
          KV(snakeCase(nHomeTown), Num(homeTown))>>)

\* the repositories of a payload; the two sets name their records differently
Repos(a, b) ==
    Obj(<<KV(rKind, Arr(<<Person(Num(1), a), Person(Num(2), b)>>)),
          KV(rPerson, Arr(<<PersonRecord(1, a, 1, 2), PersonRecord(2, b, 2, 1)>>)),
          KV(rLocation, Arr(<<Person(Num(1), b), Person(Num(2), a)>>))>>)

RelMappings ==
    {<<KV(nKind, rKind)>>,
     <<KV(nOwner, rPerson), KV(Dot(nOwner, nTown), rLocation),
       KV(Dot(nOwner, snakeCase(nHomeTown)), rLocation)>>,
     <<KV(snakeCase(nPastOwners), rPerson),
       KV(Dot(snakeCase(nPastOwners), nTown), rLocation)>>,
     <<KV(snakeCase(nPastOwners), rPerson),
       KV(Dot(snakeCase(nPastOwners), snakeCase(nHomeTown)), rLocation)>>}

\* the data of a payload: relations are references by identifier
FlatData ==
    {Obj(<<KV(nId, Num(1)), KV(nKind, Num(i)), KV(nOwner, Num(i))>>) : i \in 1..MaxId}
    \cup {Obj(<<KV(snakeCase(nPastOwners), Arr(<<Num(ij[1]), Num(ij[2])>>))>>) :
            ij \in {x \in (1..MaxId) \X (1..MaxId) : x[1] <= x[2]}}

\* a payload maps the relations its data refers to
Mapped(d, rm) == Has(d.o, rm[1].k)

Payloads ==
    {Obj(<<KV(<<"data">>, pl[1]), KV(<<"repos">>, pl[2]), KV(<<"relMapping">>, Obj(pl[3]))>>) :
        pl \in {x \in FlatData \X {Repos(sDog, sCat), Repos(sCat, sDog)} \X RelMappings :
                   Mapped(x[1], x[3])}}

GraphInit ==
    /\ \E relations \in RelationLists :
         LET r == NewModel("Animal", Null, [NoOptions EXCEPT !.relations = Arr(relations)])
         IN /\ root = r.v
            /\ graphOp = [op |-> "new", input |-> Arr(relations), ok |-> r.ok, n |-> 0]
    /\ out = NoOutput

\* the constructor returned: there is an entity to call
Constructed == ~(graphOp.op = "new" /\ ~graphOp.ok) /\ graphOp.n < MaxOps

GraphParse(data) ==
    /\ Constructed
    /\ LET r == ModelParse(root, data)
       IN /\ root' = r.v
          /\ graphOp' = [op |-> "parse", input |-> data, ok |-> r.ok, n |-> graphOp.n + 1]
    /\ out' = NoOutput
    /\ UNCHANGED uid
    /\ GraphFrame

GraphFromBackend(res) ==
    /\ Constructed
    /\ LET r == ModelFromBackend(root, res)
       IN /\ root' = r.v
          /\ graphOp' = [op |-> "fromBackend", input |-> res, ok |-> r.ok, n |-> graphOp.n + 1]
    /\ out' = NoOutput
    /\ UNCHANGED uid
    /\ GraphFrame

\* A toBackendAll() that writes the identifier of its record into the entity
GraphToBackendAllKeepsId ==
    /\ Constructed
    /\ uid < MaxUid
    /\ out' = ModelToBackendAll(root, Undefined, uid)
    /\ uid' = out'.uid
    /\ graphOp' = [op |-> "toBackendAll", input |-> Undefined, ok |-> TRUE, n |-> graphOp.n + 1]
    /\ root' = [root EXCEPT !.attrs = Put(@, primaryKey, Get(out'.data[1], primaryKey))]
    /\ GraphFrame

GraphToBackendAll ==
    /\ Constructed
    /\ uid < MaxUid
    /\ out' = ModelToBackendAll(root, Undefined, uid)
    /\ uid' = out'.uid
    /\ graphOp' = [op |-> "toBackendAll", input |-> Undefined, ok |-> TRUE, n |-> graphOp.n + 1]
    /\ UNCHANGED root
    /\ GraphFrame

\* clear() on the root entity
GraphClear ==
    /\ Constructed
    /\ root' = ModelClear(root)
    /\ graphOp' = [op |-> "clear", input |-> Undefined, ok |-> TRUE, n |-> graphOp.n + 1]
    /\ out' = NoOutput
    /\ UNCHANGED uid
    /\ GraphFrame

\* what the adapter resolves a save with: a payload, or nothing
GraphResponses == Payloads \cup {Undefined}

GraphNext ==
    \/ \E data \in GraphData : GraphParse(data)
    \/ \E res \in GraphResponses : GraphFromBackend(res)
    \/ GraphToBackendAll
    \/ GraphClear

-----------------------------------------------------------------------------
(* An entity of a class with primitive attributes only, one of them with a   *)
(* name of two words and one with a name that starts with an underscore.     *)
(* The caller assigns its attributes, and parses what toBackend() returns    *)
(* into a new entity of the class.                                           *)

\* the values the caller assigns
Primitives == {Null, Str(sDog), Str(sCat)} \cup {Num(i) : i \in 1..MaxId}

NoCopy == Done(NewModel("Contact", Null, NoOptions).v)

TripInit ==
    /\ contact = NewModel("Contact", Null, NoOptions).v
    /\ copy = NoCopy
    /\ tripOp = "new"

\* contact[attr] = value
Assign(attr, value) ==
    /\ contact' = [contact EXCEPT !.attrs = Put(@, attr, value)]
    /\ contact' # contact
    /\ copy' = NoCopy
    /\ tripOp' = "assign"
    /\ TripFrame

\* new Contact().parse(contact.toBackend())
RoundTrip ==
    /\ tripOp # "roundTrip"
    /\ copy' = ModelParse(NewModel("Contact", Null, NoOptions).v, Obj(toBackend(contact)))
    /\ tripOp' = "roundTrip"
    /\ UNCHANGED contact
    /\ TripFrame

TripNext ==
    \/ \E attr \in KeySet(Defaults("Contact")), value \in Primitives : Assign(attr, value)
    \/ RoundTrip

-----------------------------------------------------------------------------
(* The specifications.  Each one moves the variables of its own part and     *)
(* leaves the others in their initial state.                                 *)

ReqIdle ==
    /\ self = NewModel("Animal", Null, NoOptions).v
    /\ api = TRUE
    /\ urlRoot = TRUE
    /\ pendingRequestCount = 0
    /\ backendValidationErrors = {}
    /\ member = FALSE
    /\ calls = <<>>
    /\ event = [call |-> 0, what |-> "constructed", err |-> NoError]

GraphIdle ==
    /\ root = NewModel("Animal", Null, NoOptions).v
    /\ out = NoOutput
    /\ graphOp = [op |-> "new", input |-> Undefined, ok |-> TRUE, n |-> 0]

PageIdle ==
    /\ state = [currentPage |-> 1, limit |-> Num(DefaultLimit), totalRecords |-> 0]
    /\ storeApi = TRUE
    /\ storePending = 0
    /\ fetches = 0
    /\ nav = NoNav

\* requests of an entity
Init == ReqInit /\ uid = 0 /\ StoreInit /\ GraphIdle /\ PageIdle /\ TripInit
Next == ReqNext
Spec == Init /\ [][Next]_vars

\* membership of a collection
InitStore == ReqIdle /\ uid = 0 /\ StoreInit /\ GraphIdle /\ PageIdle /\ TripInit
SpecStore == InitStore /\ [][StoreNext]_vars

\* the object graph of an entity
InitGraph == ReqIdle /\ uid = 0 /\ StoreInit /\ GraphInit /\ PageIdle /\ TripInit
SpecGraph == InitGraph /\ [][GraphNext]_vars

\* pagination of a collection
InitPage == ReqIdle /\ uid = 0 /\ StoreInit /\ GraphIdle /\ PageInit /\ TripInit
SpecPage == InitPage /\ [][PageNext]_vars

\* an entity of primitive attributes and its copy
InitTrip == ReqIdle /\ uid = 0 /\ StoreInit /\ GraphIdle /\ PageIdle /\ TripInit
SpecTrip == InitTrip /\ [][TripNext]_vars

-----------------------------------------------------------------------------
(* Properties of the requests of an entity (Spec) *)

\* C1: once a network operation has settled (its promise resolved or
\* rejected, or the call threw), pendingRequestCount equals its value before
\* the call: the call has added nothing to the counter, on every outcome.
C1_CountRestoredOnEveryOutcome ==
    \A i \in 1..Len(calls) : calls[i].st # "pending" => calls[i].net = 0

\* C2: pendingRequestCount is >= 0 in every reachable state.
C2_CountNeverNegative == pendingRequestCount >= 0

\* what the calls other than call skip have added to the counter
RECURSIVE NetOfOthers(_, _, _)
NetOfOthers(cs, i, skip) ==
    IF i > Len(cs) THEN 0
    ELSE (IF i = skip THEN 0 ELSE cs[i].net) + NetOfOthers(cs, i + 1, skip)

\* the adapter has just rejected the request of a save() call
SaveJustRejected ==
    /\ event.what = "rejected"
    /\ calls[event.call].op = "save"

\* C3: after a save() whose adapter call rejects, the counter is back at its
\* pre-call value (the call has added nothing; the counter holds what the
\* other calls have added), validationErrors holds the validation errors the
\* rejection carries, and the promise of save() is rejected with that error.
C3_RejectedSave ==
    SaveJustRejected =>
        /\ calls[event.call].net = 0
        /\ pendingRequestCount = NetOfOthers(calls, 1, event.call)
        /\ (event.err.kind = "validation" =>
              backendValidationErrors = event.err.valErrors)
        /\ calls[event.call].st = "rejected"
        /\ calls[event.call].err = event.err

\* C3: a save() rejected with validation errors while another call is pending
C3_Witness ==
    /\ SaveJustRejected
    /\ event.err.kind = "validation"
    /\ \E i \in 1..Len(calls) : calls[i].st = "pending"

-----------------------------------------------------------------------------
(* Properties of the membership of a collection (SpecStore) *)

\* C4: no two members with a defined primary key share its value.
C4_UniquePrimaryKeys ==
    \A i \in 1..Len(store.models), j \in 1..Len(store.models) :
        (i # j /\ Pk(store.models[i]).t \notin {"null", "undefined"})
            => Pk(store.models[i]) # Pk(store.models[j])

\* the entries add() was given
AddEntries(models) == IF isArray(models) THEN models.a ELSE <<models>>

\* the primary key of an entry given to add(): a record or an entity
EntryId(x) ==
    IF isPlainObject(x) THEN (IF Has(x.o, primaryKey) THEN Get(x.o, primaryKey) ELSE Null)
    ELSE IF x.t = "model" THEN Pk(x.m)
    ELSE Null

\* an entry has the primary key of a member of s, or of an entry before it
Collides(s, e) ==
    \E i \in 1..Len(e) :
        /\ EntryId(e[i]).t = "num"
        /\ \/ \E k \in 1..Len(s.models) : Pk(s.models[k]) = EntryId(e[i])
           \/ \E j \in 1..(i - 1) : EntryId(e[j]) = EntryId(e[i])

\* C5: add() fails when an entry has the primary key of an existing member
\* or of another entry of the list, and a failed add() leaves the collection
\* as it was: no member is added.
C5_FailedAddChangesNothing ==
    lastOp.op = "add" =>
        /\ Collides(before, AddEntries(lastOp.input)) => ~lastOp.ok
        /\ ~lastOp.ok => store.models = before.models

-----------------------------------------------------------------------------
(* Properties of the object graph of an entity (SpecGraph) *)

RecordId(rec) == IF Has(rec, primaryKey) THEN Get(rec, primaryKey) ELSE Undefined

\* The references of the record rec of the entity node resolve in the
\* buckets: for every active relation of node, the reference(s) in rec are
\* the identifiers of consecutive records of the bucket of that relation,
\* in member order, and those records are consistent in the same way.
RECURSIVE Consistent(_, _, _)
Consistent(node, rec, relations) ==
    \A i \in 1..Len(node.current) :
        LET b == snakeCase(node.current[i])
            child == Get(node.rels, node.current[i])
            ref == IF Has(rec, b) THEN Get(rec, b) ELSE Undefined
            bucket == IF Has(relations, b) THEN Get(relations, b) ELSE <<>>
            children == IF child.k = "Store" THEN child.models ELSE <<child>>
            refs == IF isArray(ref) THEN ref.a ELSE <<ref>>
        IN /\ Len(refs) = Len(children)
           /\ \E o \in 0..(Len(bucket) - Len(children)) :
                \A k \in 1..Len(children) :
                    /\ RecordId(bucket[o + k]) = refs[k]
                    /\ refs[k].t = "num"
                    /\ Consistent(children[k], bucket[o + k], relations)

\* C6: in the output of toBackendAll() there is one primary record, and for
\* every entity of the active-relation subtree and every active relation of
\* it the reference(s) in the parent's record are the primary keys of the
\* child record(s) of the relation bucket, in member order.
C6_ReferencesMatchBuckets ==
    graphOp.op = "toBackendAll" =>
        /\ Len(out.data) = 1
        /\ Consistent(root, out.data[1], out.relations)

\* the entities reachable from node through active relations, node included
RECURSIVE CountEntities(_)
RECURSIVE SumEntities(_, _)
CountEntities(node) ==
    IF node.k = "Store" THEN SumEntities(node.models, 1)
    ELSE 1 + SumEntities([i \in 1..Len(node.current) |-> Get(node.rels, node.current[i])], 1)

SumEntities(nodes, i) ==
    IF i > Len(nodes) THEN 0
    ELSE CountEntities(nodes[i]) + SumEntities(nodes, i + 1)

\* the records of the buckets relations[i..]
RECURSIVE CountBuckets(_, _)
CountBuckets(relations, i) ==
    IF i > Len(relations) THEN 0
    ELSE Len(relations[i].v) + CountBuckets(relations, i + 1)

\* C7: toBackendAll() loses no record: the output holds one record for every
\* entity reachable through active relations, whatever the order of the
\* relations and also when two branches fill the bucket of one name.
C7_NoRecordLost ==
    graphOp.op = "toBackendAll" =>
        Len(out.data) + CountBuckets(out.relations, 1) = CountEntities(root)

\* the nodes at the path segs below node, through the members of collections
RECURSIVE NodesAt(_, _)
NodesAt(node, segs) ==
    IF segs = <<>> THEN {node}
    ELSE IF node.k = "Store"
      THEN UNION {NodesAt(node.models[i], segs) : i \in 1..Len(node.models)}
    ELSE IF Has(node.rels, Head(segs))
      THEN NodesAt(Get(node.rels, Head(segs)), Tail(segs))
    ELSE {}

\* repos[repoName] of the payload res
PayloadRepository(res, repoName) ==
    RepositoryOf(Entries(Field(res, <<"repos">>)), repoName)

\* fromBackend(res) returned
FromBackendReturned == graphOp.op = "fromBackend" /\ graphOp.ok

\* C8: fromBackend attaches every entry of relMapping before it parses data,
\* so that every lookup of the parse, the lookups of the members built in a
\* collection relation included, reads the repository of the same payload:
\* after fromBackend(res), every relation object at a mapped path, below
\* every member, has the repository res supplies for that path.
C8_LookupsReadPayloadRepository ==
    FromBackendReturned =>
        \A i \in 1..Len(Entries(Field(graphOp.input, <<"relMapping">>))) :
            LET e == Entries(Field(graphOp.input, <<"relMapping">>))[i]
            IN \A n \in NodesAt(root, CamelSegs(e.k)) :
                   n.repository = PayloadRepository(graphOp.input, e.v)

\* the records of the repository with the identifier id
RecordsWith(repository, id) ==
    IF ~isArray(repository) THEN {}
    ELSE {repository.a[i] : i \in Hits(repository, primaryKey, id)}

\* the entity has the attribute values of the record
HasValuesOf(entity, rec) ==
    /\ entity.k = "Model"
    /\ \A i \in 1..Len(rec.o) :
           Has(entity.attrs, snakeToCamel(rec.o[i].k))
               => Get(entity.attrs, snakeToCamel(rec.o[i].k)) = rec.o[i].v

\* the repository relMapping maps the path relName to
MappedRepository(res, relName) ==
    PayloadRepository(res, RepositoryOf(Entries(Field(res, <<"relMapping">>)), relName))

\* an immediate relation rel of the entity: data[rel] = r resolves to the
\* record r of the mapped repository
ImmediateResolved(res, rel) ==
    LET data == Field(res, <<"data">>)
        c == snakeToCamel(rel)
    IN (/\ isPlainObject(data) /\ Has(data.o, rel)
        /\ Has(root.rels, c) /\ Get(root.rels, c).k = "Model")
       => \A rec \in RecordsWith(MappedRepository(res, rel), Get(data.o, rel)) :
              HasValuesOf(Get(root.rels, c), rec)

\* a relation rel of the members of the collection relation coll: member k
\* is the record data[coll][k] of the repository of coll, and its reference
\* for rel resolves to the record of the repository mapped to coll.rel
MemberResolved(res, coll, rel) ==
    LET data == Field(res, <<"data">>)
        c == snakeToCamel(coll)
        r == snakeToCamel(rel)
    IN (/\ isPlainObject(data) /\ Has(data.o, coll) /\ isArray(Get(data.o, coll))
        /\ Has(root.rels, c) /\ Get(root.rels, c).k = "Store")
       => \A k \in 1..Len(Get(data.o, coll).a) :
            \A own \in RecordsWith(MappedRepository(res, coll), Get(data.o, coll).a[k]) :
              (/\ Has(own.o, rel)
               /\ k <= Len(Get(root.rels, c).models)
               /\ Has(Get(root.rels, c).models[k].rels, r))
              => \A rec \in RecordsWith(MappedRepository(res, Dot(coll, rel)),
                                        Get(own.o, rel)) :
                     HasValuesOf(Get(Get(root.rels, c).models[k].rels, r), rec)

\* C9: when relMapping maps a relation path to a repository holding a record
\* with identifier r and data references r for that relation, then after
\* fromBackend the nested entity of the relation has the attribute values of
\* that record: for an immediate relation, and for a relation of the members
\* of a collection relation, whatever the casing of the relation name.
C9_ReferencesResolved ==
    FromBackendReturned =>
        \A i \in 1..Len(Entries(Field(graphOp.input, <<"relMapping">>))) :
            LET segs == Split(Entries(Field(graphOp.input, <<"relMapping">>))[i].k,
                              <<>>, <<>>)
            IN /\ Len(segs) = 1 => ImmediateResolved(graphOp.input, segs[1])
               /\ Len(segs) = 2 => MemberResolved(graphOp.input, segs[1], segs[2])

-----------------------------------------------------------------------------
(* Properties of the pagination of a collection (SpecPage) *)

\* the call changed no pagination state and called no fetch
NothingChanged ==
    /\ state = nav.before
    /\ nav.fetched = 0
    /\ fetches = nav.fetches
    /\ storePending = nav.pending

\* C10: setPage(n) with n no integer or outside [1, totalPages],
\* getNextPage() without a next page and getPreviousPage() without a
\* previous page fail, change none of currentPage, limit and totalRecords and
\* call no fetch; a setPage(n) that returns has set currentPage to n, left
\* limit and totalRecords alone, and has called fetch unless options.fetch
\* suppressed it.
C10_PageNavigation ==
    /\ (/\ nav.op = "setPage"
        /\ \/ ~IsInteger(nav.page)
           \/ Less(nav.page, 1)
           \/ Greater(nav.page, totalPages(nav.before)))
       => (nav.result = "failed" /\ NothingChanged)
    /\ (nav.op = "getNextPage" /\ nav.before.currentPage >= totalPages(nav.before))
       => (nav.result = "failed" /\ NothingChanged)
    /\ (nav.op = "getPreviousPage" /\ nav.before.currentPage <= 1)
       => (nav.result = "failed" /\ NothingChanged)
    /\ (nav.op = "setPage" /\ nav.result = "returned")
       => /\ IsInteger(nav.page)
          /\ state = [nav.before EXCEPT !.currentPage = nav.page.n]
          /\ nav.fetch # "false" => (nav.fetched = 1 /\ fetches = nav.fetches + 1)
          /\ nav.fetch = "false" => (nav.fetched = 0 /\ fetches = nav.fetches)

\* C10: a setPage beyond the last page of a collection that has pages, that
\* asked for a fetch
C10_Witness ==
    /\ nav.op = "setPage"
    /\ totalPages(nav.before) > 1
    /\ IsInteger(nav.page)
    /\ Greater(nav.page, totalPages(nav.before))
    /\ nav.fetch = "true"
    /\ nav.result = "failed"

\* C11: in every reachable state of a collection currentPage is an integer
\* >= 1, limit is a positive integer or unset, and totalRecords is >= 0.
C11_PaginationState ==
    /\ state.currentPage \in Int /\ state.currentPage >= 1
    /\ state.limit = Null \/ (state.limit.t = "num" /\ state.limit.n > 0)
    /\ state.totalRecords >= 0

\* C12: at(index) on a collection of length L returns the member at position
\* index for 0 <= index < L, the member at position index + L for
\* -L <= index < 0, and fails for every index outside [-L, L - 1].
C12_AtIndex ==
    lastOp.op = "at" =>
        LET L == Len(store.models)
            index == lastOp.input.n
        IN /\ (0 <= index /\ index < L)
                => (lastOp.ok /\ lastOp.result = store.models[index + 1])
           /\ (0 - L <= index /\ index < 0)
                => (lastOp.ok /\ lastOp.result = store.models[index + L + 1])
           /\ (index >= L \/ index < 0 - L) => ~lastOp.ok

\* the members before the call are the first members after it, in order
PreviousMembersKept ==
    /\ Len(store.models) >= Len(before.models)
    /\ SubSeq(store.models, 1, Len(before.models)) = before.models

\* C13: add() accepts raw records and already constructed entities, one or a
\* list: without a primary-key collision it succeeds, every previous member
\* keeps its position, one member is appended per entry, and the member
\* appended for an entry is that entity, or an entity with the values of
\* that record.
C13_AddAcceptsRecordsAndEntities ==
    (lastOp.op = "add" /\ ~Collides(before, AddEntries(lastOp.input))) =>
        /\ lastOp.ok
        /\ PreviousMembersKept
        /\ Len(store.models) = Len(before.models) + Len(AddEntries(lastOp.input))
        /\ \A i \in 1..Len(AddEntries(lastOp.input)) :
             LET entry == AddEntries(lastOp.input)[i]
                 added == store.models[Len(before.models) + i]
             IN IF entry.t = "model" THEN added.attrs = entry.m.attrs
                ELSE HasValuesOf(added, entry)

\* the records of the data of the payload given to the last fromBackend
GivenRecords == Field(lastOp.input, <<"data">>).a

\* C14: a collection's fromBackend replaces the whole member list: after the
\* call the members correspond one to one and in order to the records of
\* data, and no member present before the call remains beside them.
C14_FromBackendReplaces ==
    (lastOp.op = "fromBackend" /\ lastOp.ok) =>
        /\ Len(store.models) = Len(GivenRecords)
        /\ \A i \in 1..Len(GivenRecords) : HasValuesOf(store.models[i], GivenRecords[i])

\* C14: fromBackend with two records on a collection that had other members
C14_Witness ==
    /\ lastOp.op = "fromBackend"
    /\ lastOp.ok
    /\ Len(before.models) > 0
    /\ Len(GivenRecords) = 2
    /\ \A i \in 1..Len(before.models) : \A j \in 1..Len(store.models) :
           before.models[i] # store.models[j]

\* the identifiers among ids[i..] that have a record in the repository
RECURSIVE MatchedIds(_, _, _)
MatchedIds(repository, ids, i) ==
    IF i > Len(ids) THEN <<>>
    ELSE (IF RecordsWith(repository, ids[i]) # {} THEN <<ids[i]>> ELSE <<>>)
         \o MatchedIds(repository, ids, i + 1)

\* the identifiers the last __addFromRepository was given
GivenIds == IdList(lastOp.input)

\* C21: a collection filled from a list of identifiers holds exactly the
\* records of the repository that the identifiers match, in the order of the
\* list, each member with the attributes of its record; an identifier with
\* no record in the repository produces no member.
C21_MembersAreMatchedRecords ==
    (lastOp.op = "__addFromRepository" /\ lastOp.ok) =>
        LET matched == MatchedIds(store.repository, GivenIds, 1)
        IN /\ Len(store.models) = Len(matched)
           /\ \A i \in 1..Len(matched) :
                \E rec \in RecordsWith(store.repository, matched[i]) :
                    HasValuesOf(store.models[i], rec)

\* the records of the buckets relations[i..], one after the other
RECURSIVE BucketRecords(_, _)
BucketRecords(relations, i) ==
    IF i > Len(relations) THEN <<>>
    ELSE relations[i].v \o BucketRecords(relations, i + 1)

\* every record of an output of toBackendAll
AllRecords(o) == o.data \o BucketRecords(o.relations, 1)

\* the values the synthesizer returned while the counter went from u to v
Synthesized(u, v) == [k \in 1..(v - u) |-> generateNegativeId(u + k - 1)]

\* C16: the identifiers synthesized in toBackendAll(), in any nesting over
\* entities and collections and over any number of calls, are negative and
\* pairwise distinct, those of earlier calls included; every record of the
\* output carries a backend identifier or one of them, the record of a new
\* entity one of them, and no two records carry the same one.
C16_SynthesizedIds ==
    [][(graphOp'.op = "toBackendAll" /\ graphOp'.n # graphOp.n) =>
          LET made == Synthesized(uid, uid')
              earlier == Synthesized(0, uid)
              recs == AllRecords(out')
          IN /\ \A k \in 1..Len(made) : made[k] < 0
             /\ \A k \in 1..Len(made), l \in 1..Len(made) : k # l => made[k] # made[l]
             /\ \A k \in 1..Len(made), l \in 1..Len(earlier) : made[k] # earlier[l]
             /\ \A i \in 1..Len(recs) :
                  /\ RecordId(recs[i]).t = "num"
                  /\ RecordId(recs[i]).n > 0 \/ \E k \in 1..Len(made) : made[k] = RecordId(recs[i]).n
             /\ isNew(root) => RecordId(out'.data[1]).n < 0
             /\ \A i \in 1..Len(recs), j \in 1..Len(recs) :
                  (i # j /\ RecordId(recs[i]).n < 0) => RecordId(recs[i]) # RecordId(recs[j])
      ]_vars

\* C16: a second toBackendAll() whose output has records with two different
\* synthesized identifiers
C16_Witness ==
    /\ graphOp.op = "toBackendAll"
    /\ graphOp.n >= 2
    /\ \E i \in 1..Len(AllRecords(out)), j \in 1..Len(AllRecords(out)) :
          /\ RecordId(AllRecords(out)[i]).n < 0 - 2
          /\ RecordId(AllRecords(out)[j]).n < 0
          /\ RecordId(AllRecords(out)[i]) # RecordId(AllRecords(out)[j])

\* val is an Entity or a Collection
IsInstance(val) == "k" \in DOMAIN val /\ val.k \in {"Model", "Store"}

\* every active immediate relation of node, and of the entities below it,
\* is a field that holds an Entity or a Collection
RECURSIVE HoldsInstances(_)
HoldsInstances(node) ==
    IF node.k = "Store"
      THEN \A i \in 1..Len(node.models) :
              IsInstance(node.models[i]) /\ HoldsInstances(node.models[i])
      ELSE \A i \in 1..Len(node.current) :
              /\ Has(node.rels, node.current[i])
              /\ IsInstance(Get(node.rels, node.current[i]))
              /\ HoldsInstances(Get(node.rels, node.current[i]))

\* C18: once an entity is constructed, every active immediate relation field
\* holds an Entity or a Collection in every reachable state, never a raw
\* identifier or a list of identifiers, after any sequence of parse,
\* fromBackend (with nested data or with references), clear and responses.
C18_RelationsHoldInstances ==
    ~(graphOp.op = "new" /\ ~graphOp.ok) => HoldsInstances(root)

\* C18: a parse or fromBackend of references has returned on an entity with
\* an entity relation and a collection relation that has members
C18_Witness ==
    /\ graphOp.op \in {"parse", "fromBackend"}
    /\ graphOp.ok
    /\ graphOp.n >= 2
    /\ \E i \in 1..Len(root.rels) :
          root.rels[i].v.k = "Store" /\ root.rels[i].v.models # <<>>

\* the first segment of the path s, and what follows its first dot
FirstSegment(s) == IF FirstDot(s, 1) = 0 THEN s ELSE SubSeq(s, 1, FirstDot(s, 1) - 1)
Remainder(s) == SubSeq(s, FirstDot(s, 1) + 1, Len(s))

\* the first segments of paths[i..] in the order of their first occurrence,
\* after those of seen
RECURSIVE FirstSegments(_, _, _)
FirstSegments(paths, i, seen) ==
    IF i > Len(paths) THEN seen
    ELSE FirstSegments(paths, i + 1,
                       IF Includes(seen, FirstSegment(paths[i].s)) THEN seen
                       ELSE Append(seen, FirstSegment(paths[i].s)))

\* the remainders of the dotted paths among paths[i..] whose first segment
\* is seg, in their order
RECURSIVE Remainders(_, _, _)
Remainders(paths, i, seg) ==
    IF i > Len(paths) THEN <<>>
    ELSE (IF FirstDot(paths[i].s, 1) # 0 /\ FirstSegment(paths[i].s) = seg
            THEN <<Str(Remainder(paths[i].s))>> ELSE <<>>)
         \o Remainders(paths, i + 1, seg)

\* C19: for any ordered list of relation paths, also when a dotted path comes
\* before the bare path of the same first segment, construction makes each
\* distinct first segment once an immediate relation recorded in
\* activeCurrentRelations, and the nested paths given to that relation are
\* the remainders of the dotted inputs with that first segment.
C19_FirstSegmentsOnce ==
    graphOp.op = "new" =>
        /\ graphOp.ok
        /\ root.current = FirstSegments(graphOp.input.a, 1, <<>>)
        /\ Keys(root.rels) = root.current
        /\ \A i \in 1..Len(root.rels) :
              root.rels[i].v.active = Remainders(graphOp.input.a, 1, root.rels[i].k)

\* the members of the collection relations of the entity m
RelationMembers(m) ==
    UNION {SeqToSet(m.rels[i].v.models) :
             i \in {j \in 1..Len(m.rels) : m.rels[j].v.k = "Store"}}

\* C23: toBackend() and toBackendAll() leave the object graph unchanged:
\* every attribute value, the primary key of an unsaved entity that got a
\* placeholder identifier in the output included, and every collection's
\* members and their order are as before; the placeholders are in the
\* returned payload only, and an unsaved entity is still new after the call.
C23_ToBackendAllChangesNothing ==
    [][(graphOp'.op = "toBackendAll" /\ graphOp'.n # graphOp.n) =>
          /\ root' = root
          /\ toBackend(root') = toBackend(root)
          /\ isNew(root) =>
                /\ isNew(root')
                /\ Pk(root') = Null
                /\ RecordId(out'.data[1]).n < 0
          /\ \A m \in RelationMembers(root) : isNew(m) => m \in RelationMembers(root')
      ]_vars

\* C23: toBackendAll() has returned placeholder identifiers for an unsaved
\* entity and for an unsaved member of one of its collections
C23_Witness ==
    /\ graphOp.op = "toBackendAll"
    /\ isNew(root)
    /\ RecordId(out.data[1]).n < 0
    /\ \E m \in RelationMembers(root) : isNew(m)
    /\ \E i \in 1..Len(AllRecords(out)) :
          i > 1 /\ RecordId(AllRecords(out)[i]).n < 0


-----------------------------------------------------------------------------
(* Further properties of the request lifecycle (Spec) *)

\* save() or saveAll() has just been called
SaveJustCalled ==
    /\ event.what = "called"
    /\ calls[event.call].op \in {"save", "saveAll"}

\* a step that leaves validation errors other than those there were is the
\* settlement of a save() the adapter rejected
ErrorsSetByRejectedSave ==
    (backendValidationErrors' # backendValidationErrors /\ backendValidationErrors' # {}) =>
        /\ event'.what = "rejected"
        /\ calls'[event'.call].op = "save"
        /\ calls[event'.call].st = "pending"
        /\ backendValidationErrors' = event'.err.valErrors

\* C15: save() and saveAll() empty validationErrors at the start of the call:
\* once a save is started the errors an earlier rejected save left are gone,
\* and only a save rejected after that start brings errors back, so that a
\* save resolving with no overlapping rejected save leaves them empty.
C15_SaveClearsValidationErrors ==
    /\ [](SaveJustCalled => backendValidationErrors = {})
    /\ [][ErrorsSetByRejectedSave]_vars

\* C15: a save is started after an earlier save was rejected with validation
\* errors
C15_Witness ==
    /\ SaveJustCalled
    /\ \E j \in 1..(event.call - 1) :
          /\ calls[j].op = "save"
          /\ calls[j].st = "rejected"
          /\ calls[j].err.kind = "validation"

\* the calls that have started and not yet settled
InFlight == {i \in 1..Len(calls) : calls[i].st = "pending"}

\* C20: with any number of overlapping calls on one entity and any order of
\* their settlements, pendingRequestCount is the number of calls started and
\* not yet settled, so that isLoading holds exactly while a request is in
\* flight and the count is 0 once all have settled.
C20_CountIsCallsInFlight ==
    /\ pendingRequestCount = Cardinality(InFlight)
    /\ isLoading(pendingRequestCount) <=> (InFlight # {})

\* this step is the call of delete()
DeleteCalled ==
    /\ Len(calls') = Len(calls) + 1
    /\ calls'[Len(calls')].op = "delete"

\* this step is a settlement of the request of a delete() call
DeleteSettled(what) ==
    /\ Len(calls') = Len(calls)
    /\ event'.what = what
    /\ event'.call \in 1..Len(calls)
    /\ calls[event'.call].op = "delete"
    /\ calls[event'.call].st = "pending"

\* C22: delete() on an entity with an owning collection.  A new entity is
\* removed at once, with no adapter call and the counter unchanged.  A
\* persisted entity deleted without the immediate option stays a member when
\* delete() is called and when deleteModel rejects, and is removed when
\* deleteModel resolves; with the immediate option it is removed by the call.
\* Nothing else removes the entity, and nothing puts it back.
C22_DeleteOrder ==
    [][/\ (DeleteCalled /\ isNew(self)) =>
            /\ ~member'
            /\ calls'[Len(calls')].st = "fulfilled"
            /\ pendingRequestCount' = pendingRequestCount
       /\ (DeleteCalled /\ ~isNew(self)) =>
            member' = (member /\ ~calls'[Len(calls')].immediate)
       /\ DeleteSettled("resolved") =>
            member' = (member /\ calls[event'.call].immediate)
       /\ DeleteSettled("rejected") => member' = member
       /\ (member' # member) =>
            /\ member /\ ~member'
            /\ DeleteCalled \/ DeleteSettled("resolved")
      ]_vars

\* C22: the deleteModel of a persisted member deleted without the immediate
\* option has been rejected, and the entity is still a member
C22_Witness ==
    /\ event.what = "rejected"
    /\ calls[event.call].op = "delete"
    /\ ~calls[event.call].immediate
    /\ member


-----------------------------------------------------------------------------
(* Properties of an entity of primitive attributes (SpecTrip) *)

\* the attributes attrs of the copy have the values they have in the entity
SameValues(attrs) ==
    /\ copy.ok
    /\ \A attr \in attrs : Get(copy.v.attrs, attr) = Get(contact.attrs, attr)

\* C17: for an entity with primitive attributes only, parse(toBackend(e))
\* yields an entity whose every attribute has the value it has in e, the
\* attributes whose name starts with an underscore and those with a name of
\* several words included.
C17_RoundTrip ==
    tripOp = "roundTrip" => SameValues(KeySet(contact.attrs))

=============================================================================
